---- MODULE Spec2Model ----
(***************************************************************************)
(* PhantomPool: the three program variants of programs/phantom-pool/src.   *)
(*                                                                         *)
(*   enhanced_lib.rs  variables pool, orders, rounds, executors             *)
(*   lib.rs           variables lib_pool, lib_orders, lib_rounds, lib_bal, *)
(*                    and lib_other_pool, a second pool of the program     *)
(*   lib_basic.rs     variable basic_pool                                  *)
(*   the clock        variable now                                         *)
(*                                                                         *)
(* Every instruction handler is one action.  A handler that returns an     *)
(* error leaves the accounts as they were; the action then changes only    *)
(* `result`, the record of the last call and its outcome.  Accounts that   *)
(* an instruction creates (`#[account(init)]`) are appended to a sequence, *)
(* so an account's key is its position in that sequence.  Ciphertexts,     *)
(* proofs and signatures are opaque byte strings that no handler reads     *)
(* other than through the verify_* functions; they are left out of the     *)
(* records.                                                                *)
(***************************************************************************)
EXTENDS Integers, Sequences, FiniteSets, TLC

VARIABLES pool, orders, rounds, executors, now, result,
          lib_pool, lib_orders, lib_rounds, lib_bal,
          lib_other_pool, basic_pool

enh_vars == <<pool, orders, rounds, executors, now>>
lib_vars == <<lib_pool, lib_orders, lib_rounds, lib_bal>>
ext_vars == <<lib_other_pool, basic_pool>>
vars == <<pool, orders, rounds, executors, now, result,
          lib_pool, lib_orders, lib_rounds, lib_bal,
          lib_other_pool, basic_pool>>

(***************************************************************************)
(* Bounds of the model and the sets the inputs are drawn from.             *)
(***************************************************************************)
MaxOrders == 2
MaxSubmissions == 4
MaxRounds == 2
MaxShares == 3
MaxCompletions == 2
MaxTime == 60
TickSteps == {30}

Traders == {"t1", "t2"}
Hashes == {"h1", "h2"}
Nonces == {"n1", "n2", "n3", "n4"}
Sides == {"Buy", "Sell"}
Authority == "authority"
ExecutorIndices == 0..3
ShareIndices == 0..2
Decryptions == {"d1"}
BatchLengths == 0..2
ShareBatches == UNION {[1..n -> Decryptions] : n \in BatchLengths}
ExecutorAuthorities == {"e1"}
ExecutorAccountKeys == {1}
StakeAmounts == {999999999, 1000000000}
\* The proof of a batch of shares: one an honest executor produced for it, one
\* that is an arbitrary byte string.
ZkProofs == {"sound", "forged"}
\* Executor slashing: the callers, the violation types and the stakes put up.
SlashCallers == {Authority, "mallory"}
SoundEvidence == {"sound"}
SlashEvidence == {"sound", "forged"}
ViolationTypes == {"InvalidDecryption", "MissedHeartbeat", "DoubleSpending",
                   "MaliciousMatching"}
SlashStakes == {1000000000, 2000000000}
MaxVariedSlashes == 2
MaxSlashes == 3
MaxExecShares == 1
\* Pool creation: the committee parameters (u8) a caller may pass, and the
\* number of executor accounts that try to register.
ThresholdInputs == {0, 2, 3, 4, 5, 6, 255}
TotalExecutorInputs == {0, 2, 3, 4, 5, 6, 255}
RegistrationIndices == 0..5
MaxExecutors == 4

\* lib.rs: the parameters the pool is initialized with, the funds a trader
\* holds and the inputs of its instructions.
LibMinOrderSize == 10
LibMaxOrderSize == 20
LibFeeBps == 30
\* lib_basic.rs: the volume of a trade, the batches of trades and the first
\* byte of a threshold proof.
\* The largest batch settle_matched_trades of lib_basic.rs accepts.
MAX_TRADES == 50
VolumeWordMax == 100
TradeVolumes == {0, 1}
UniformBatchSizes == {0, 1, 2, MAX_TRADES, MAX_TRADES + 1}
TradeBatches ==
    {[i \in 1..n |-> [volume |-> v]] : n \in UniformBatchSizes, v \in TradeVolumes}
        \cup {<<[volume |-> 1], [volume |-> 3]>>, <<[volume |-> VolumeWordMax], [volume |-> 1]>>}
ThresholdProofBytes == {100, 101}

FeeBpsInputs == {0, LibFeeBps, 10000, 10001, 65535}
LibUserFunds == 30
Deposits == {LibMinOrderSize - 1, LibMinOrderSize, LibMaxOrderSize, LibMaxOrderSize + 1}
ProofLengths == {63, 64}
RoundIds == {1, 2}
HashLists == UNION {[1..n -> Hashes] : n \in 1..2}
\* lib.rs rounds: the snapshot a round is opened with, the matched pairs and
\* proofs a settlement is submitted with.
RoundHashLists == {<<"h1", "h2">>}
RoundDeposits == {LibMinOrderSize}
MatchAmounts == {10, 11}
MatchLists == {<< >>} \cup {<<[buy_order_hash |-> "h1", sell_order_hash |-> "h2",
                               amount |-> a]>> : a \in MatchAmounts}
PoolsMatchLists == {<< >>, <<[buy_order_hash |-> "h1", sell_order_hash |-> "h2",
                               amount |-> 10]>>}
OtherRoundIds == {1}
ClearingPrices == {150}
MatchingProofLengths == {31, 32}
ThresholdSignatureLengths == {63, 64}
PauseCallers == {Authority, "mallory"}
\* lib.rs execute_settlements: the batches of settlements.
SettlementAmounts == {5, 10}
SettlementFees == {1, 6}
Settlements == [amount : SettlementAmounts, fee_amount : SettlementFees]
SettlementBatches == UNION {[1..n -> Settlements] : n \in 1..2}

(***************************************************************************)
(* Program constants of enhanced_lib.rs.                                   *)
(***************************************************************************)
MINIMUM_EXECUTOR_STAKE == 1000 * 1000000
MIN_MATCH_INTERVAL == 30
GRACE_PERIOD == 300
CLEARING_PRICE_STUB == 150000000
EXECUTED_VOLUME_STUB == 1000000
\* add_nonce keeps at most 10000 nonces; the model keeps the same FIFO with a
\* capacity small enough for the eviction to be explored.
NonceCapacity == 2

NoCall == [op |-> "none", status |-> "Ok"]

(***************************************************************************)
(* enhanced_lib.rs: verification functions (all return true).              *)
(***************************************************************************)
verify_solvency_proof == TRUE
verify_order_signature == TRUE
verify_vrf_proof == TRUE
verify_partial_decryption_proof(zk_proof) == TRUE
verify_execution_proof == TRUE
verify_cancellation_signature == TRUE
verify_threshold_share == TRUE
verify_slashing_evidence(evidence, violation_type, executor_index) == TRUE

(***************************************************************************)
(* enhanced_lib.rs: impl DarkPool.                                         *)
(***************************************************************************)
SeqToSet(s) == {s[i] : i \in 1..Len(s)}

order_exists(p, order_hash) == FALSE

nonce_used(p, nonce) == nonce \in SeqToSet(p.used_nonces)

\* Mutant: evicts as soon as the capacity is reached instead of exceeded.
add_nonce_evicts_early(p, nonce) ==
    LET pushed == Append(p.used_nonces, nonce)
    IN  [p EXCEPT !.used_nonces =
            IF Len(pushed) >= NonceCapacity THEN Tail(pushed) ELSE pushed]

\* Mutant: pushes the nonce and never removes one.
add_nonce_never_evicts(p, nonce) ==
    [p EXCEPT !.used_nonces = Append(p.used_nonces, nonce)]

add_nonce(p, nonce) ==
    LET pushed == Append(p.used_nonces, nonce)
    IN  [p EXCEPT !.used_nonces =
            IF Len(pushed) > NonceCapacity THEN Tail(pushed) ELSE pushed]

get_pending_orders(p) == p.pending_orders

\* Mutant: finds no executor at any index.
executor_exists_never(p, index) == FALSE

executor_exists(p, index) ==
    \E i \in 1..Len(p.executor_registry) : p.executor_registry[i][2] = index

add_executor(p, executor, index) ==
    [p EXCEPT !.executor_registry = Append(@, <<executor, index>>)]

(***************************************************************************)
(* enhanced_lib.rs: initialize_pool.  The pool account is created by       *)
(* `init`, which fails on an account that already exists.                  *)
(***************************************************************************)
NoPool == [authority |-> "none"]

\* Mutant: the lower bound on the threshold is not checked.
initialize_pool_status_no_lower_bound(threshold, total_executors) ==
    IF ~(threshold <= total_executors) THEN "InvalidThreshold"
    ELSE IF ~(total_executors <= 5) THEN "TooManyExecutors"
    ELSE "Ok"

initialize_pool_status(threshold, total_executors) ==
    IF ~(threshold <= total_executors /\ threshold >= 3) THEN "InvalidThreshold"
    ELSE IF ~(total_executors <= 5) THEN "TooManyExecutors"
    ELSE "Ok"

initialize_pool(authority, threshold, total_executors, clock) ==
    [authority |-> authority,
     threshold |-> threshold,
     total_executors |-> total_executors,
     order_count |-> 0,
     matching_round |-> 0,
     last_match_time |-> clock,
     is_matching |-> FALSE,
     total_volume |-> 0,
     executor_registry |-> << >>,
     used_nonces |-> << >>,
     pending_orders |-> << >>]

InitializePool(authority, threshold, total_executors) ==
    LET st == IF pool # NoPool THEN "AccountAlreadyInUse"
              ELSE initialize_pool_status(threshold, total_executors)
    IN  /\ result' = [op |-> "initialize_pool", status |-> st,
                      threshold |-> threshold, total_executors |-> total_executors]
        /\ IF st = "Ok"
           THEN pool' = initialize_pool(authority, threshold, total_executors, now)
           ELSE UNCHANGED pool
        /\ UNCHANGED <<orders, rounds, executors, now>>
        /\ UNCHANGED lib_vars
        /\ UNCHANGED ext_vars

(***************************************************************************)
(* enhanced_lib.rs: submit_encrypted_order.                                *)
(***************************************************************************)
submit_encrypted_order_status(order_hash, nonce) ==
    IF order_exists(pool, order_hash) THEN "DuplicateOrder"
    ELSE IF nonce_used(pool, nonce) THEN "NonceReused"
    ELSE IF ~verify_solvency_proof THEN "InvalidSolvencyProof"
    ELSE IF ~verify_order_signature THEN "InvalidSignature"
    ELSE "Ok"

SubmitEncryptedOrder(trader, order_hash, side, nonce) ==
    LET st == submit_encrypted_order_status(order_hash, nonce)
        order == [order_hash |-> order_hash,
                  trader |-> trader,
                  side |-> side,
                  status |-> "Pending",
                  submitted_at |-> now,
                  cancelled_at |-> 0,
                  nonce |-> nonce]
    IN  /\ result' = [op |-> "submit_encrypted_order", status |-> st,
                      order_hash |-> order_hash, nonce |-> nonce]
        /\ IF st = "Ok"
           THEN /\ orders' = Append(orders, order)
                /\ pool' = add_nonce([pool EXCEPT !.order_count = @ + 1], nonce)
           ELSE UNCHANGED <<orders, pool>>
        /\ UNCHANGED <<rounds, executors, now>>
        /\ UNCHANGED lib_vars
        /\ UNCHANGED ext_vars

(***************************************************************************)
(* enhanced_lib.rs: initialize_matching_round.                             *)
(***************************************************************************)
initialize_matching_round_status ==
    IF ~(now - pool.last_match_time >= MIN_MATCH_INTERVAL) THEN "MatchingTooEarly"
    ELSE IF ~verify_vrf_proof THEN "InvalidVrfProof"
    ELSE IF ~(Len(get_pending_orders(pool)) >= 2) THEN "InsufficientOrders"
    ELSE "Ok"

InitializeMatchingRound ==
    LET st == initialize_matching_round_status
        started == [pool EXCEPT !.matching_round = @ + 1,
                                !.is_matching = TRUE,
                                !.last_match_time = now]
        matching_round == [round_number |-> started.matching_round,
                           start_time |-> now,
                           execution_timestamp |-> 0,
                           status |-> "Active",
                           encrypted_orders |-> get_pending_orders(started),
                           partial_decryptions |-> << >>,
                           matched_orders |-> << >>,
                           clearing_price |-> 0,
                           threshold |-> started.threshold]
    IN  /\ result' = [op |-> "initialize_matching_round", status |-> st]
        /\ IF st = "Ok"
           THEN /\ pool' = started
                /\ rounds' = Append(rounds, matching_round)
           ELSE UNCHANGED <<pool, rounds>>
        /\ UNCHANGED <<orders, executors, now>>
        /\ UNCHANGED lib_vars
        /\ UNCHANGED ext_vars

(***************************************************************************)
(* enhanced_lib.rs: cancel_order.  The handler reads ctx.accounts.pool;    *)
(* it is the pool the order was submitted to.  charge_cancellation_fee     *)
(* moves nothing; the call is recorded in the result.                      *)
(***************************************************************************)
cancel_order_status(order, trader) ==
    IF ~(order.trader = trader) THEN "UnauthorizedCancel"
    ELSE IF ~verify_cancellation_signature THEN "InvalidSignature"
    ELSE IF ~(order.status = "Pending") THEN "OrderAlreadyProcessed"
    ELSE IF pool.is_matching THEN "CannotCancelDuringMatching"
    ELSE "Ok"

CancelOrder(k, trader) ==
    LET st == cancel_order_status(orders[k], trader)
    IN  /\ result' = [op |-> "cancel_order", status |-> st, order |-> k,
                      trader |-> trader,
                      fee_charged |-> (st = "Ok" /\ now - orders[k].submitted_at < GRACE_PERIOD)]
        /\ IF st = "Ok"
           THEN orders' = [orders EXCEPT ![k].status = "Cancelled",
                                         ![k].cancelled_at = now]
           ELSE UNCHANGED orders
        /\ UNCHANGED <<pool, rounds, executors, now>>
        /\ UNCHANGED lib_vars
        /\ UNCHANGED ext_vars

(***************************************************************************)
(* enhanced_lib.rs: impl MatchingRound and the round's helper functions.   *)
(***************************************************************************)
is_authorized_executor(round, executor, index) == TRUE

add_partial_decryption(round, executor_index, order_index, decryption) ==
    [round EXCEPT !.partial_decryptions =
        Append(@, [executor_index |-> executor_index,
                   order_index |-> order_index,
                   decryption |-> decryption,
                   timestamp |-> now])]

\* Mutant: counts the recorded shares instead of the distinct executors.
has_sufficient_shares_counts_entries(round) ==
    Len(round.partial_decryptions) >= round.threshold

\* Mutant: drops a repeated executor only when its shares arrive back to
\* back, so the count depends on the order of arrival.
has_sufficient_shares_adjacent_dedup(round) ==
    LET pds == round.partial_decryptions
        runs == {i \in 1..Len(pds) :
                    i = 1 \/ pds[i].executor_index # pds[i - 1].executor_index}
    IN  Cardinality(runs) >= round.threshold

has_sufficient_shares(round) ==
    LET executor_set == {round.partial_decryptions[i].executor_index :
                            i \in 1..Len(round.partial_decryptions)}
    IN  Cardinality(executor_set) >= round.threshold

complete_threshold_decryption(round) ==
    [round EXCEPT !.status = "ReadyToComplete",
                  !.clearing_price = CLEARING_PRICE_STUB]

execute_matched_trades(trades, clearing_price) == EXECUTED_VOLUME_STUB

\* for (i, decryption) in partial_decryptions.iter().enumerate(): the order
\* index is the position in the batch, counted from 0.
RECURSIVE store_partial_decryptions(_, _, _, _)
store_partial_decryptions(round, executor_index, partial_decryptions, i) ==
    IF i > Len(partial_decryptions) THEN round
    ELSE store_partial_decryptions(
             add_partial_decryption(round, executor_index, i - 1, partial_decryptions[i]),
             executor_index, partial_decryptions, i + 1)

(***************************************************************************)
(* enhanced_lib.rs: submit_partial_decryption.                             *)
(***************************************************************************)
submit_partial_decryption_status(round, executor, e, executor_index, zk_proof) ==
    IF ~is_authorized_executor(round, e, executor_index) THEN "UnauthorizedExecutor"
    ELSE IF ~(executor.is_active /\ executor.stake_amount >= MINIMUM_EXECUTOR_STAKE)
         THEN "InsufficientStake"
    ELSE IF ~verify_partial_decryption_proof(zk_proof) THEN "InvalidPartialDecryption"
    ELSE "Ok"

SubmitPartialDecryption(r, e, executor_index, partial_decryptions, zk_proof) ==
    LET st == submit_partial_decryption_status(rounds[r], executors[e], e,
                                               executor_index, zk_proof)
        stored == store_partial_decryptions(rounds[r], executor_index, partial_decryptions, 1)
        after == IF has_sufficient_shares(stored)
                 THEN complete_threshold_decryption(stored)
                 ELSE stored
    IN  /\ result' = [op |-> "submit_partial_decryption", status |-> st, round |-> r,
                      executor |-> e, zk_proof |-> zk_proof]
        /\ IF st = "Ok"
           THEN /\ rounds' = [rounds EXCEPT ![r] = after]
                /\ executors' = [executors EXCEPT ![e].last_heartbeat = now]
           ELSE UNCHANGED <<rounds, executors>>
        /\ UNCHANGED <<pool, orders, now>>
        /\ UNCHANGED lib_vars
        /\ UNCHANGED ext_vars

(***************************************************************************)
(* enhanced_lib.rs: complete_matching_round.                               *)
(***************************************************************************)
complete_matching_round_status(round) ==
    IF ~(round.status = "ReadyToComplete") THEN "MatchingNotReady"
    ELSE IF ~verify_execution_proof THEN "InvalidExecutionProof"
    ELSE "Ok"

CompleteMatchingRound(r) ==
    LET st == complete_matching_round_status(rounds[r])
        total_volume == execute_matched_trades(rounds[r].matched_orders,
                                               rounds[r].clearing_price)
    IN  /\ result' = [op |-> "complete_matching_round", status |-> st, round |-> r]
        /\ IF st = "Ok"
           THEN /\ pool' = [pool EXCEPT !.is_matching = FALSE,
                                        !.total_volume = @ + total_volume]
                /\ rounds' = [rounds EXCEPT ![r].status = "Completed",
                                            ![r].execution_timestamp = now]
           ELSE UNCHANGED <<pool, rounds>>
        /\ UNCHANGED <<orders, executors, now>>
        /\ UNCHANGED lib_vars
        /\ UNCHANGED ext_vars

(***************************************************************************)
(* enhanced_lib.rs: register_executor.  The stake transfer is the external *)
(* token capability; the executor's token account holds the stake.         *)
(***************************************************************************)
register_executor_status(executor_index, stake_amount) ==
    IF ~(executor_index < pool.total_executors) THEN "InvalidExecutorIndex"
    ELSE IF ~(stake_amount >= MINIMUM_EXECUTOR_STAKE) THEN "InsufficientStake"
    ELSE IF executor_exists(pool, executor_index) THEN "ExecutorAlreadyRegistered"
    ELSE IF ~verify_threshold_share THEN "InvalidThresholdShare"
    ELSE "Ok"

RegisterExecutor(executor_authority, executor_index, stake_amount) ==
    LET st == register_executor_status(executor_index, stake_amount)
        executor == [authority |-> executor_authority,
                     executor_index |-> executor_index,
                     stake_amount |-> stake_amount,
                     is_active |-> TRUE,
                     slash_count |-> 0,
                     last_heartbeat |-> now,
                     performance_score |-> 100]
    IN  /\ result' = [op |-> "register_executor", status |-> st]
        /\ IF st = "Ok"
           THEN /\ executors' = Append(executors, executor)
                /\ pool' = add_executor(pool, Len(executors) + 1, executor_index)
           ELSE UNCHANGED <<executors, pool>>
        /\ UNCHANGED <<orders, rounds, now>>
        /\ UNCHANGED lib_vars
        /\ UNCHANGED ext_vars

(***************************************************************************)
(* enhanced_lib.rs: slash_executor.  slash_count is a u8 and `+= 1` is     *)
(* unchecked arithmetic of the language: at 255 it panics when the program *)
(* is built with overflow checks (the instruction fails and changes        *)
(* nothing) and wraps to 0 when it is built without; overflow_checks is    *)
(* the build.                                                              *)
(***************************************************************************)
U8_MODULUS == 2 ^ 8

\* Mutant: the subtraction turned into an addition.
saturating_sub_adds(a, b) == a + b

saturating_sub(a, b) == IF a >= b THEN a - b ELSE 0

calculate_slash_amount(violation_type, stake_amount) ==
    CASE violation_type = "InvalidDecryption" -> stake_amount \div 10
      [] violation_type = "MissedHeartbeat" -> stake_amount \div 100
      [] violation_type = "DoubleSpending" -> stake_amount \div 2
      [] violation_type = "MaliciousMatching" -> stake_amount \div 4

\* Mutant: deactivates on the slash count alone.
deactivate_if_required_count_only(executor) ==
    IF executor.slash_count >= 3
    THEN [executor EXCEPT !.is_active = FALSE]
    ELSE executor

deactivate_if_required(executor) ==
    IF executor.slash_count >= 3 \/ executor.stake_amount < MINIMUM_EXECUTOR_STAKE
    THEN [executor EXCEPT !.is_active = FALSE]
    ELSE executor

slash_executor_status(executor, authority, violation_type, evidence, overflow_checks) ==
    IF ~(authority = pool.authority) THEN "UnauthorizedSlash"
    ELSE IF ~verify_slashing_evidence(evidence, violation_type, executor.executor_index)
         THEN "InvalidSlashingEvidence"
    ELSE IF overflow_checks /\ executor.slash_count + 1 >= U8_MODULUS
         THEN "ArithmeticOverflow"
    ELSE "Ok"

SlashExecutor(e, authority, violation_type, evidence, overflow_checks) ==
    LET st == slash_executor_status(executors[e], authority, violation_type,
                                    evidence, overflow_checks)
        slash_amount == calculate_slash_amount(violation_type, executors[e].stake_amount)
        slashed == [executors[e] EXCEPT
                       !.stake_amount = saturating_sub(@, slash_amount),
                       !.slash_count = (@ + 1) % U8_MODULUS,
                       !.performance_score = saturating_sub(@, 20)]
    IN  /\ result' = [op |-> "slash_executor", status |-> st, executor |-> e,
                      violation_type |-> violation_type, authority |-> authority,
                      evidence |-> evidence]
        /\ IF st = "Ok"
           THEN executors' = [executors EXCEPT ![e] = deactivate_if_required(slashed)]
           ELSE UNCHANGED executors
        /\ UNCHANGED <<pool, orders, rounds, now>>
        /\ UNCHANGED lib_vars
        /\ UNCHANGED ext_vars

(***************************************************************************)
(* enhanced_lib.rs: executor_heartbeat.                                    *)
(***************************************************************************)
\* Mutant: the heartbeat of an inactive executor is accepted.
executor_heartbeat_status_always_ok(executor) == "Ok"

executor_heartbeat_status(executor) ==
    IF ~executor.is_active THEN "ExecutorInactive" ELSE "Ok"

\* Mutant: takes the second argument, whichever is smaller.
min_takes_second(a, b) == b

min(a, b) == IF a < b THEN a ELSE b

ExecutorHeartbeat(e) ==
    LET st == executor_heartbeat_status(executors[e])
    IN  /\ result' = [op |-> "executor_heartbeat", status |-> st, executor |-> e]
        /\ IF st = "Ok"
           THEN executors' = [executors EXCEPT
                                 ![e].last_heartbeat = now,
                                 ![e].performance_score = min(100, @ + 1)]
           ELSE UNCHANGED executors
        /\ UNCHANGED <<pool, orders, rounds, now>>
        /\ UNCHANGED lib_vars
        /\ UNCHANGED ext_vars

(***************************************************************************)
(* The clock (Clock::get()?.unix_timestamp).                               *)
(***************************************************************************)
Tick(step) ==
    /\ now + step <= MaxTime
    /\ now' = now + step
    /\ result' = [op |-> "tick", status |-> "Ok"]
    /\ UNCHANGED <<pool, orders, rounds, executors>>
    /\ UNCHANGED lib_vars
    /\ UNCHANGED ext_vars

(***************************************************************************)
(* lib.rs.  An order account is the program address derived from the order *)
(* hash, a round account the one derived from the round id and an escrow   *)
(* the one derived from its order, so lib_orders and lib_bal.escrow are    *)
(* functions of order hashes and lib_rounds is a function of round ids;    *)
(* `init` fails on an address that is already in use.  token::transfer is  *)
(* the external token capability: it fails when the source holds less than *)
(* the amount, and the instruction fails with it.  Option<i64> is << >>    *)
(* for None and <<t>> for Some(t).                                         *)
(***************************************************************************)
NoAccounts == [x \in {} |-> 0]

lib_initialize_pool(authority, min_order_size, max_order_size, fee_bps, clock) ==
    [authority |-> authority,
     total_orders |-> 0,
     matching_round |-> 0,
     is_matching_active |-> FALSE,
     min_order_size |-> min_order_size,
     max_order_size |-> max_order_size,
     fee_bps |-> fee_bps,
     total_volume |-> 0,
     total_trades |-> 0,
     total_fees_collected |-> 0,
     is_paused |-> FALSE,
     paused_at |-> << >>,
     created_at |-> clock]

\* The pool account is created by the instruction (`init`): a second
\* initialize_pool on it fails before the handler runs.  No argument is
\* validated.
NoLibPool == [authority |-> "none"]

LibInitializePool(authority, min_order_size, max_order_size, fee_bps) ==
    LET st == IF lib_pool # NoLibPool THEN "AccountAlreadyInUse" ELSE "Ok"
    IN  /\ result' = [op |-> "lib.initialize_pool", status |-> st, fee_bps |-> fee_bps]
        /\ IF st = "Ok"
           THEN lib_pool' = lib_initialize_pool(authority, min_order_size,
                                                max_order_size, fee_bps, now)
           ELSE UNCHANGED lib_pool
        /\ UNCHANGED <<lib_orders, lib_rounds, lib_bal>>
        /\ UNCHANGED enh_vars
        /\ UNCHANGED ext_vars

\* Mutant: the order-size bounds are exclusive.
lib_submit_encrypted_order_status_strict(user, order_hash, proof_len, deposit_amount) ==
    IF order_hash \in DOMAIN lib_orders THEN "AccountAlreadyInUse"
    ELSE IF ~(deposit_amount > lib_pool.min_order_size
              /\ deposit_amount < lib_pool.max_order_size) THEN "InvalidOrderSize"
    ELSE IF ~(proof_len >= 64) THEN "InvalidSolvencyProof"
    ELSE IF lib_bal.user[user] < deposit_amount THEN "TransferFailed"
    ELSE "Ok"

lib_submit_encrypted_order_status(user, order_hash, proof_len, deposit_amount) ==
    IF order_hash \in DOMAIN lib_orders THEN "AccountAlreadyInUse"
    ELSE IF ~(deposit_amount >= lib_pool.min_order_size
              /\ deposit_amount <= lib_pool.max_order_size) THEN "InvalidOrderSize"
    ELSE IF ~(proof_len >= 64) THEN "InvalidSolvencyProof"
    ELSE IF lib_bal.user[user] < deposit_amount THEN "TransferFailed"
    ELSE "Ok"

LibSubmitEncryptedOrder(user, side, proof_len, order_hash, deposit_amount) ==
    LET st == lib_submit_encrypted_order_status(user, order_hash, proof_len, deposit_amount)
        order == [owner |-> user,
                  side |-> side,
                  order_hash |-> order_hash,
                  deposit_amount |-> deposit_amount,
                  escrow_account |-> order_hash,
                  status |-> "Pending",
                  submitted_at |-> now,
                  cancelled_at |-> << >>]
    IN  /\ result' = [op |-> "lib.submit_encrypted_order", status |-> st,
                      order_hash |-> order_hash, deposit_amount |-> deposit_amount]
        /\ IF st = "Ok"
           THEN /\ lib_bal' = [lib_bal EXCEPT
                                  !.user[user] = @ - deposit_amount,
                                  !.escrow = @ @@ (order_hash :> deposit_amount)]
                /\ lib_orders' = lib_orders @@ (order_hash :> order)
                /\ lib_pool' = [lib_pool EXCEPT !.total_orders = @ + 1]
           ELSE UNCHANGED <<lib_bal, lib_orders, lib_pool>>
        /\ UNCHANGED lib_rounds
        /\ UNCHANGED enh_vars
        /\ UNCHANGED ext_vars

\* The pool account an instruction is given.  No instruction of lib.rs that
\* takes a round compares matching_round.pool with the pool it is given.
LibPoolKey == "pool"
LibOtherPoolKey == "other_pool"
LibPoolKeys == {LibPoolKey, LibOtherPoolKey}

lib_pool_account(pool_key) ==
    IF pool_key = LibPoolKey THEN lib_pool ELSE lib_other_pool

lib_pool_stored(pool_key, p) ==
    IF pool_key = LibPoolKey
    THEN lib_pool' = p /\ UNCHANGED lib_other_pool
    ELSE lib_other_pool' = p /\ UNCHANGED lib_pool

\* The address of a round account is derived from the pool's key and the
\* round id: the rounds of lib_pool are at their round id, the rounds of the
\* other pool OtherPoolAddressBase above.
OtherPoolAddressBase == 100

round_address(pool_key, round_id) ==
    IF pool_key = LibPoolKey THEN round_id ELSE OtherPoolAddressBase + round_id

lib_batch_match_orders_status(p, address, proof_len, order_hashes) ==
    IF address \in DOMAIN lib_rounds THEN "AccountAlreadyInUse"
    ELSE IF p.is_matching_active THEN "MatchingInProgress"
    ELSE IF ~(Len(order_hashes) >= 2) THEN "InsufficientOrders"
    ELSE IF ~(proof_len = 64) THEN "InvalidVrfProof"
    ELSE "Ok"

LibBatchMatchOrders(pool_key, round_id, proof_len, order_hashes) ==
    LET p == lib_pool_account(pool_key)
        address == round_address(pool_key, round_id)
        st == lib_batch_match_orders_status(p, address, proof_len, order_hashes)
        matching_round == [pool |-> pool_key,
                           round_id |-> round_id,
                           order_hashes |-> order_hashes,
                           status |-> "InProgress",
                           started_at |-> now,
                           completed_at |-> << >>,
                           matches |-> << >>,
                           clearing_price |-> 0,
                           total_fees |-> 0]
    IN  /\ result' = [op |-> "lib.batch_match_orders", status |-> st,
                      pool |-> pool_key, round_id |-> round_id]
        /\ IF st = "Ok"
           THEN /\ lib_rounds' = lib_rounds @@ (address :> matching_round)
                /\ lib_pool_stored(pool_key, [p EXCEPT !.matching_round = round_id,
                                                       !.is_matching_active = TRUE])
           ELSE UNCHANGED <<lib_rounds, lib_pool, lib_other_pool>>
        /\ UNCHANGED <<lib_orders, lib_bal>>
        /\ UNCHANGED enh_vars
        /\ UNCHANGED basic_pool

\* Mutant: an order is cancelled whatever its status.
lib_cancel_order_status_any_status(order, user, escrow) ==
    IF ~(order.owner = user) THEN "Unauthorized"
    ELSE IF lib_bal.escrow[escrow] < order.deposit_amount THEN "TransferFailed"
    ELSE "Ok"

\* The escrow and the destination token account of a cancellation are the
\* ones the caller passes: CancelOrder puts no constraint on either.
lib_cancel_order_status(order, user, escrow) ==
    IF ~(order.status = "Pending") THEN "InvalidOrderStatus"
    ELSE IF ~(order.owner = user) THEN "Unauthorized"
    ELSE IF lib_bal.escrow[escrow] < order.deposit_amount THEN "TransferFailed"
    ELSE "Ok"

LibCancelOrder(o, user, escrow) ==
    LET st == lib_cancel_order_status(lib_orders[o], user, escrow)
    IN  /\ result' = [op |-> "lib.cancel_order", status |-> st, order |-> o,
                      user |-> user]
        /\ IF st = "Ok"
           THEN /\ lib_bal' = [lib_bal EXCEPT
                                  !.escrow[escrow] = @ - lib_orders[o].deposit_amount,
                                  !.user[user] = @ + lib_orders[o].deposit_amount]
                /\ lib_orders' = [lib_orders EXCEPT ![o].status = "Cancelled",
                                                    ![o].cancelled_at = <<now>>]
           ELSE UNCHANGED <<lib_bal, lib_orders>>
        /\ UNCHANGED <<lib_pool, lib_rounds>>
        /\ UNCHANGED enh_vars
        /\ UNCHANGED ext_vars

(***************************************************************************)
(* lib.rs: settle_matched_trades.                                          *)
(***************************************************************************)
RECURSIVE fold_amount(_)
fold_amount(matches) ==
    IF matches = << >> THEN 0
    ELSE Head(matches).amount + fold_amount(Tail(matches))

\* Mutant: a settlement is accepted whatever the round's status.
lib_settle_matched_trades_status_any_status(matching_round, matching_proof_len, threshold_signature_len) ==
    IF ~(threshold_signature_len >= 64) THEN "InvalidThresholdSignature"
    ELSE IF ~(matching_proof_len >= 32) THEN "InvalidMatchingProof"
    ELSE "Ok"

lib_settle_matched_trades_status(matching_round, matching_proof_len, threshold_signature_len) ==
    IF ~(matching_round.status = "InProgress") THEN "InvalidMatchingStatus"
    ELSE IF ~(threshold_signature_len >= 64) THEN "InvalidThresholdSignature"
    ELSE IF ~(matching_proof_len >= 32) THEN "InvalidMatchingProof"
    ELSE "Ok"

LibSettleMatchedTrades(pool_key, r, matches, clearing_price, matching_proof_len, threshold_signature_len) ==
    LET p == lib_pool_account(pool_key)
        st == lib_settle_matched_trades_status(lib_rounds[r], matching_proof_len,
                                               threshold_signature_len)
        total_volume == fold_amount(matches)
        total_fees == (total_volume * p.fee_bps) \div 10000
    IN  /\ result' = [op |-> "lib.settle_matched_trades", status |-> st,
                      pool |-> pool_key, round_id |-> r]
        /\ IF st = "Ok"
           THEN /\ lib_rounds' = [lib_rounds EXCEPT
                                     ![r].matches = matches,
                                     ![r].clearing_price = clearing_price,
                                     ![r].total_fees = total_fees,
                                     ![r].status = "DecryptionComplete"]
                /\ lib_pool_stored(pool_key,
                                   [p EXCEPT !.total_volume = @ + total_volume,
                                             !.total_trades = @ + Len(matches),
                                             !.total_fees_collected = @ + total_fees])
           ELSE UNCHANGED <<lib_rounds, lib_pool, lib_other_pool>>
        /\ UNCHANGED <<lib_orders, lib_bal>>
        /\ UNCHANGED enh_vars
        /\ UNCHANGED basic_pool

(***************************************************************************)
(* lib.rs: execute_settlements.  The source escrow, the destination and    *)
(* the treasury are the token accounts the caller passes.  An instruction  *)
(* that returns an error has every effect of its token transfers           *)
(* discarded by the runtime with it.  `amount - fee_amount` is unchecked   *)
(* u64 arithmetic: with fee_amount above amount it panics when the program *)
(* is built with overflow checks and otherwise wraps to                    *)
(* 2^64 - (fee_amount - amount), more than the escrow holds.               *)
(***************************************************************************)
RECURSIVE run_settlements(_, _, _, _, _, _)
run_settlements(bal, source_escrow, destination, settlement_data, i, overflow_checks) ==
    IF i > Len(settlement_data) THEN [status |-> "Ok", bal |-> bal, reached |-> i]
    ELSE LET settlement == settlement_data[i]
             net_amount == settlement.amount - settlement.fee_amount
             paid == [bal EXCEPT !.escrow[source_escrow] = @ - net_amount,
                                 !.user[destination] = @ + net_amount]
             charged == [paid EXCEPT !.escrow[source_escrow] = @ - settlement.fee_amount,
                                     !.treasury = @ + settlement.fee_amount]
         IN  IF settlement.amount < settlement.fee_amount
             THEN [status |-> IF overflow_checks THEN "ArithmeticOverflow"
                                                 ELSE "TransferFailed",
                   bal |-> bal, reached |-> i]
             ELSE IF bal.escrow[source_escrow] < net_amount
             THEN [status |-> "TransferFailed", bal |-> bal, reached |-> i]
             ELSE IF paid.escrow[source_escrow] < settlement.fee_amount
             THEN [status |-> "TransferFailed", bal |-> paid, reached |-> i]
             ELSE run_settlements(charged, source_escrow, destination,
                                  settlement_data, i + 1, overflow_checks)

\* The call as `result` records it: the batch by its length and totals.
RECURSIVE sum_of(_, _)
sum_of(settlement_data, field) ==
    IF settlement_data = << >> THEN 0
    ELSE Head(settlement_data)[field] + sum_of(Tail(settlement_data), field)

\* Mutant: the transfers made before the failing one stay in place.
committed_balances_keeps_partial(before, outcome) == outcome.bal

committed_balances(before, outcome) ==
    IF outcome.status = "Ok" THEN outcome.bal ELSE before

LibExecuteSettlements(source_escrow, destination, settlement_data, overflow_checks) ==
    LET outcome == run_settlements(lib_bal, source_escrow, destination,
                                   settlement_data, 1, overflow_checks)
    IN  /\ result' = [op |-> "lib.execute_settlements", status |-> outcome.status,
                      settlements |-> Len(settlement_data), reached |-> outcome.reached,
                      amount |-> sum_of(settlement_data, "amount"),
                      fee_amount |-> sum_of(settlement_data, "fee_amount")]
        /\ lib_bal' = committed_balances(lib_bal, outcome)
        /\ UNCHANGED <<lib_pool, lib_orders, lib_rounds>>
        /\ UNCHANGED enh_vars
        /\ UNCHANGED ext_vars

(***************************************************************************)
(* lib.rs: finalize_matching_round.                                        *)
(***************************************************************************)
lib_finalize_matching_round_status(matching_round) ==
    IF ~(matching_round.status = "DecryptionComplete") THEN "InvalidMatchingStatus"
    ELSE "Ok"

LibFinalizeMatchingRound(pool_key, r) ==
    LET p == lib_pool_account(pool_key)
        st == lib_finalize_matching_round_status(lib_rounds[r])
    IN  /\ result' = [op |-> "lib.finalize_matching_round", status |-> st,
                      pool |-> pool_key, round_id |-> r]
        /\ IF st = "Ok"
           THEN /\ lib_rounds' = [lib_rounds EXCEPT ![r].status = "Completed",
                                                    ![r].completed_at = <<now>>]
                /\ lib_pool_stored(pool_key, [p EXCEPT !.is_matching_active = FALSE])
           ELSE UNCHANGED <<lib_rounds, lib_pool, lib_other_pool>>
        /\ UNCHANGED <<lib_orders, lib_bal>>
        /\ UNCHANGED enh_vars
        /\ UNCHANGED basic_pool

(***************************************************************************)
(* lib.rs: emergency_pause.                                                *)
(***************************************************************************)
lib_emergency_pause_status(authority) ==
    IF ~(authority = lib_pool.authority) THEN "Unauthorized" ELSE "Ok"

LibEmergencyPause(authority) ==
    LET st == lib_emergency_pause_status(authority)
    IN  /\ result' = [op |-> "lib.emergency_pause", status |-> st,
                      authority |-> authority]
        /\ IF st = "Ok"
           THEN lib_pool' = [lib_pool EXCEPT !.is_paused = TRUE,
                                             !.paused_at = <<now>>]
           ELSE UNCHANGED lib_pool
        /\ UNCHANGED <<lib_orders, lib_rounds, lib_bal>>
        /\ UNCHANGED enh_vars
        /\ UNCHANGED ext_vars

(***************************************************************************)
(* lib_basic.rs.  total_volume is a u64 and every addition to it is a      *)
(* checked_add(..).unwrap(), which panics on overflow; VolumeWordMax       *)
(* stands for u64::MAX.  A threshold proof is read through its first byte  *)
(* only.                                                                   *)
(***************************************************************************)
NoBasicPool == [authority |-> "none"]

basic_initialize_pool(authority) ==
    [authority |-> authority,
     total_volume |-> 0,
     order_count |-> 0,
     is_matching |-> FALSE]

BasicInitializePool(authority) ==
    LET st == IF basic_pool # NoBasicPool THEN "AccountAlreadyInUse" ELSE "Ok"
    IN  /\ result' = [op |-> "basic.initialize_pool", status |-> st]
        /\ IF st = "Ok"
           THEN basic_pool' = basic_initialize_pool(authority)
           ELSE UNCHANGED basic_pool
        /\ UNCHANGED lib_other_pool
        /\ UNCHANGED enh_vars
        /\ UNCHANGED lib_vars

checked_add(a, b) ==
    IF a + b > VolumeWordMax THEN [is_some |-> FALSE, value |-> 0]
    ELSE [is_some |-> TRUE, value |-> a + b]

\* Mutant: the proof is accepted whatever its first byte.
RECURSIVE verify_threshold_proof_any_proof(_, _, _, _)
verify_threshold_proof_any_proof(proof, trades, i, total_volume) ==
    IF i <= Len(trades)
    THEN LET sum == checked_add(total_volume, trades[i].volume)
         IN  IF ~sum.is_some THEN [status |-> "Panic", total_volume |-> 0]
             ELSE verify_threshold_proof_any_proof(proof, trades, i + 1, sum.value)
    ELSE [status |-> "Ok", total_volume |-> total_volume]

\* The loop over the trades from trade i on, then the test of the proof.
RECURSIVE verify_threshold_proof(_, _, _, _)
verify_threshold_proof(proof, trades, i, total_volume) ==
    IF i <= Len(trades)
    THEN LET sum == checked_add(total_volume, trades[i].volume)
         IN  IF ~sum.is_some THEN [status |-> "Panic", total_volume |-> 0]
             ELSE verify_threshold_proof(proof, trades, i + 1, sum.value)
    ELSE IF ~(proof > 100) THEN [status |-> "InvalidThresholdProof", total_volume |-> 0]
    ELSE [status |-> "Ok", total_volume |-> total_volume]

BasicSettleMatchedTrades(trade_data, threshold_proof) ==
    LET verified == verify_threshold_proof(threshold_proof, trade_data, 1, 0)
        sum == checked_add(basic_pool.total_volume, verified.total_volume)
        st == IF ~(Len(trade_data) <= MAX_TRADES) THEN "TooManyTrades"
              ELSE IF verified.status # "Ok" THEN verified.status
              ELSE IF ~sum.is_some THEN "Panic"
              ELSE "Ok"
    IN  /\ result' = [op |-> "basic.settle_matched_trades", status |-> st,
                      trade_data |-> trade_data, threshold_proof |-> threshold_proof]
        /\ IF st = "Ok"
           THEN basic_pool' = [basic_pool EXCEPT !.total_volume = sum.value]
           ELSE UNCHANGED basic_pool
        /\ UNCHANGED lib_other_pool
        /\ UNCHANGED enh_vars
        /\ UNCHANGED lib_vars

(***************************************************************************)
(* Specifications.                                                         *)
(***************************************************************************)
PoolConfig == <<3, 3>>

LibInit ==
    /\ lib_pool = lib_initialize_pool(Authority, LibMinOrderSize, LibMaxOrderSize, LibFeeBps, 0)
    /\ lib_orders = NoAccounts
    /\ lib_rounds = NoAccounts
    /\ lib_bal = [user |-> [t \in Traders |-> LibUserFunds], escrow |-> NoAccounts,
                  treasury |-> 0]
    /\ lib_other_pool = lib_initialize_pool(Authority, LibMinOrderSize, LibMaxOrderSize,
                                            LibFeeBps, 0)
    /\ basic_pool = NoBasicPool

EnhInit ==
    /\ pool = initialize_pool(Authority, PoolConfig[1], PoolConfig[2], 0)
    /\ orders = << >>
    /\ rounds = << >>
    /\ executors = << >>
    /\ now = 0
    /\ result = NoCall

\* The nonce a well-behaved trader draws: one the pool does not hold.
FreshNonce == CHOOSE n \in Nonces : ~nonce_used(pool, n)

Init == EnhInit /\ LibInit

Next ==
    \/ /\ Len(orders) < MaxOrders
       /\ \E trader \in Traders, side \in Sides :
            SubmitEncryptedOrder(trader, "h1", side, FreshNonce)
    \/ InitializeMatchingRound
    \/ \E k \in 1..Len(orders), trader \in Traders : CancelOrder(k, trader)
    \/ \E step \in TickSteps : Tick(step)

Spec == Init /\ [][Next]_vars

(***************************************************************************)
(* SpecReplay: order intake alone, with every order hash and nonce the     *)
(* bounded sets hold, up to MaxSubmissions stored orders.                  *)
(***************************************************************************)
NextReplay ==
    /\ Len(orders) < MaxSubmissions
    /\ \E trader \in Traders, order_hash \in Hashes, nonce \in Nonces :
            SubmitEncryptedOrder(trader, order_hash, "Buy", nonce)

SpecReplay == Init /\ [][NextReplay]_vars

(***************************************************************************)
(* SpecRound: the round handlers.  No instruction writes                   *)
(* pool.pending_orders, so from Init no round is ever opened (C1).  The    *)
(* round handlers are therefore run from the pool state the design         *)
(* describes for two accepted orders: both stored Pending and both listed  *)
(* in pool.pending_orders.                                                 *)
(***************************************************************************)
SeededOrders ==
    <<[order_hash |-> "h1", trader |-> "t1", side |-> "Buy", status |-> "Pending",
       submitted_at |-> 0, cancelled_at |-> 0, nonce |-> "n1"],
      [order_hash |-> "h2", trader |-> "t2", side |-> "Sell", status |-> "Pending",
       submitted_at |-> 0, cancelled_at |-> 0, nonce |-> "n2"]>>

InitRound ==
    /\ pool = [add_nonce(add_nonce(initialize_pool(Authority, PoolConfig[1], PoolConfig[2], 0),
                                   "n1"), "n2")
                 EXCEPT !.order_count = 2, !.pending_orders = <<1, 2>>]
    /\ orders = SeededOrders
    /\ rounds = << >>
    /\ executors = << >>
    /\ now = 0
    /\ result = NoCall
    /\ LibInit

RECURSIVE SharesStored(_)
SharesStored(n) ==
    IF n = 0 THEN 0 ELSE Len(rounds[n].partial_decryptions) + SharesStored(n - 1)

NextRound ==
    \/ /\ Len(executors) + 1 \in ExecutorAccountKeys
       /\ \E authority \in ExecutorAuthorities, index \in ExecutorIndices,
             stake \in StakeAmounts : RegisterExecutor(authority, index, stake)
    \/ /\ Len(rounds) < MaxRounds
       /\ InitializeMatchingRound
    \/ \E r \in 1..Len(rounds), e \in 1..Len(executors), index \in ShareIndices,
          batch \in ShareBatches, zk_proof \in ZkProofs :
            /\ SharesStored(Len(rounds)) + Len(batch) <= MaxShares
            /\ SubmitPartialDecryption(r, e, index, batch, zk_proof)
    \/ /\ pool.total_volume < MaxCompletions * EXECUTED_VOLUME_STUB
       /\ \E r \in 1..Len(rounds) : CompleteMatchingRound(r)
    \/ \E step \in TickSteps : Tick(step)

SpecRound == InitRound /\ [][NextRound]_vars

(***************************************************************************)
(* SpecSlash: registration, slashing and heartbeat of one executor, from   *)
(* the pool initialize_pool creates.  The authority may slash an executor  *)
(* any number of times; the first MaxVariedSlashes slashes take every      *)
(* violation type and the later ones are missed heartbeats, up to the      *)
(* slash that overflows slash_count.                                       *)
(***************************************************************************)
ViolationsAt(slash_count) ==
    IF slash_count < MaxVariedSlashes THEN ViolationTypes ELSE {"MissedHeartbeat"}

\* An inactive executor with no slash on its count: the count has wrapped.
\* The exploration stops there.
Wrapped(executor) == ~executor.is_active /\ executor.slash_count = 0

NextSlash ==
    \/ /\ Len(executors) + 1 \in ExecutorAccountKeys
       /\ \E authority \in ExecutorAuthorities, index \in ExecutorIndices,
             stake \in StakeAmounts \cup SlashStakes :
                RegisterExecutor(authority, index, stake)
    \/ \E e \in 1..Len(executors), authority \in SlashCallers,
          violation_type \in ViolationTypes, evidence \in SoundEvidence,
          overflow_checks \in BOOLEAN :
            /\ violation_type \in ViolationsAt(executors[e].slash_count)
            /\ ~Wrapped(executors[e])
            /\ SlashExecutor(e, authority, violation_type, evidence, overflow_checks)
    \/ \E e \in 1..Len(executors) : ExecutorHeartbeat(e)

SpecSlash == Init /\ [][NextSlash]_vars

(***************************************************************************)
(* SpecAuth: the authority-only operations of both programs, called by the *)
(* authority and by another signer, with evidence of either kind.          *)
(***************************************************************************)
NextAuth ==
    \/ /\ Len(executors) + 1 \in ExecutorAccountKeys
       /\ \E authority \in ExecutorAuthorities, index \in ExecutorIndices,
             stake \in StakeAmounts : RegisterExecutor(authority, index, stake)
    \/ \E e \in 1..Len(executors), authority \in SlashCallers,
          violation_type \in ViolationTypes, evidence \in SlashEvidence,
          overflow_checks \in BOOLEAN :
            /\ executors[e].slash_count < MaxSlashes
            /\ SlashExecutor(e, authority, violation_type, evidence, overflow_checks)
    \/ \E authority \in PauseCallers : LibEmergencyPause(authority)
    \/ \E step \in TickSteps : Tick(step)

SpecAuth == Init /\ [][NextAuth]_vars

(***************************************************************************)
(* SpecExec: an executor through registration, heartbeat, slashing and     *)
(* share submission, from the same pool state as SpecRound.                *)
(***************************************************************************)
NextExec ==
    \/ /\ Len(executors) + 1 \in ExecutorAccountKeys
       /\ \E authority \in ExecutorAuthorities, index \in ExecutorIndices,
             stake \in StakeAmounts : RegisterExecutor(authority, index, stake)
    \/ /\ rounds = << >>
       /\ InitializeMatchingRound
    \/ \E r \in 1..Len(rounds), e \in 1..Len(executors), index \in ShareIndices,
          batch \in ShareBatches, zk_proof \in ZkProofs :
            /\ SharesStored(Len(rounds)) + Len(batch) <= MaxExecShares
            /\ SubmitPartialDecryption(r, e, index, batch, zk_proof)
    \/ \E e \in 1..Len(executors), authority \in SlashCallers,
          violation_type \in ViolationTypes, evidence \in SoundEvidence,
          overflow_checks \in BOOLEAN :
            /\ executors[e].slash_count < MaxSlashes
            /\ SlashExecutor(e, authority, violation_type, evidence, overflow_checks)
    \/ \E e \in 1..Len(executors) : ExecutorHeartbeat(e)
    \/ \E step \in TickSteps : Tick(step)

SpecExec == InitRound /\ [][NextExec]_vars

(***************************************************************************)
(* SpecLib: lib.rs, from the pool initialize_pool creates.                 *)
(***************************************************************************)
NextLib ==
    \/ \E user \in Traders, side \in Sides, proof_len \in ProofLengths,
          order_hash \in Hashes, deposit \in Deposits :
            LibSubmitEncryptedOrder(user, side, proof_len, order_hash, deposit)
    \/ \E round_id \in RoundIds, proof_len \in ProofLengths, order_hashes \in HashLists :
            LibBatchMatchOrders(LibPoolKey, round_id, proof_len, order_hashes)
    \/ \E o \in DOMAIN lib_orders, user \in Traders, escrow \in DOMAIN lib_bal.escrow :
            LibCancelOrder(o, user, escrow)

SpecLib == Init /\ [][NextLib]_vars

(***************************************************************************)
(* SpecSnapshot: order intake, cancellation and round opening, from the    *)
(* same pool state as SpecRound.                                           *)
(***************************************************************************)
NextSnapshot ==
    \/ /\ Len(orders) <= MaxOrders
       /\ \E trader \in Traders, side \in Sides :
            SubmitEncryptedOrder(trader, "h1", side, FreshNonce)
    \/ \E k \in 1..Len(orders), trader \in Traders : CancelOrder(k, trader)
    \/ /\ Len(rounds) < MaxRounds
       /\ InitializeMatchingRound
    \/ \E step \in TickSteps : Tick(step)

SpecSnapshot == InitRound /\ [][NextSnapshot]_vars

(***************************************************************************)
(* SpecPool: creation of the pool and registration of its committee, from  *)
(* the state in which no pool account exists.                              *)
(***************************************************************************)
InitPool ==
    /\ pool = NoPool
    /\ orders = << >>
    /\ rounds = << >>
    /\ executors = << >>
    /\ now = 0
    /\ result = NoCall
    /\ LibInit

NextPool ==
    \/ \E threshold \in ThresholdInputs, total_executors \in TotalExecutorInputs :
            InitializePool(Authority, threshold, total_executors)
    \/ /\ pool # NoPool
       /\ Len(executors) < MaxExecutors
       /\ \E authority \in ExecutorAuthorities, index \in RegistrationIndices,
             stake \in StakeAmounts : RegisterExecutor(authority, index, stake)

SpecPool == InitPool /\ [][NextPool]_vars

(***************************************************************************)
(* SpecLibRound: lib.rs rounds from opening to finalization, with order    *)
(* intake and the emergency pause.                                         *)
(***************************************************************************)
NextLibRound ==
    \/ \E user \in Traders, proof_len \in ProofLengths, order_hash \in Hashes,
          deposit \in RoundDeposits :
            LibSubmitEncryptedOrder(user, "Buy", proof_len, order_hash, deposit)
    \/ \E round_id \in RoundIds, proof_len \in ProofLengths,
          order_hashes \in RoundHashLists :
            LibBatchMatchOrders(LibPoolKey, round_id, proof_len, order_hashes)
    \/ \E r \in DOMAIN lib_rounds, matches \in MatchLists,
          clearing_price \in ClearingPrices,
          matching_proof_len \in MatchingProofLengths,
          threshold_signature_len \in ThresholdSignatureLengths :
            LibSettleMatchedTrades(LibPoolKey, r, matches, clearing_price,
                                   matching_proof_len, threshold_signature_len)
    \/ \E r \in DOMAIN lib_rounds : LibFinalizeMatchingRound(LibPoolKey, r)
    \/ \E authority \in PauseCallers : LibEmergencyPause(authority)

SpecLibRound == Init /\ [][NextLibRound]_vars

(***************************************************************************)
(* SpecCancel: order intake and cancellation in both programs.             *)
(***************************************************************************)
NextCancel ==
    \/ /\ Len(orders) < MaxOrders
       /\ \E trader \in Traders :
            SubmitEncryptedOrder(trader, "h1", "Buy", FreshNonce)
    \/ \E k \in 1..Len(orders), trader \in Traders : CancelOrder(k, trader)
    \/ \E user \in Traders, order_hash \in Hashes, deposit \in RoundDeposits :
            LibSubmitEncryptedOrder(user, "Sell", 64, order_hash, deposit)
    \/ \E o \in DOMAIN lib_orders, user \in Traders, escrow \in DOMAIN lib_bal.escrow :
            LibCancelOrder(o, user, escrow)

SpecCancel == Init /\ [][NextCancel]_vars

(***************************************************************************)
(* SpecPools: the rounds of two pools of lib.rs.  Every instruction is     *)
(* given the pool account and the round account its caller chooses.        *)
(***************************************************************************)
NextPools ==
    \/ \E pool_key \in LibPoolKeys, round_id \in RoundIds, proof_len \in ProofLengths,
          order_hashes \in RoundHashLists :
            /\ pool_key = LibOtherPoolKey => round_id \in OtherRoundIds
            /\ LibBatchMatchOrders(pool_key, round_id, proof_len, order_hashes)
    \/ \E pool_key \in LibPoolKeys, r \in DOMAIN lib_rounds, matches \in PoolsMatchLists,
          matching_proof_len \in MatchingProofLengths,
          threshold_signature_len \in ThresholdSignatureLengths :
            LibSettleMatchedTrades(pool_key, r, matches, 150, matching_proof_len,
                                   threshold_signature_len)
    \/ \E pool_key \in LibPoolKeys, r \in DOMAIN lib_rounds :
            LibFinalizeMatchingRound(pool_key, r)

SpecPools == Init /\ [][NextPools]_vars

(***************************************************************************)
(* SpecPoolsLive: SpecPools with weak fairness of the calls the authority  *)
(* of a pool makes on the pool's own rounds: a well-formed settlement of a *)
(* round InProgress and the finalization of a round DecryptionComplete.    *)
(* The other calls are any signer's: no instruction of lib.rs but          *)
(* emergency_pause compares its signer with pool.authority.                *)
(***************************************************************************)
AuthoritySettles ==
    \E r \in DOMAIN lib_rounds, matches \in PoolsMatchLists :
        /\ lib_rounds[r].status = "InProgress"
        /\ LibSettleMatchedTrades(lib_rounds[r].pool, r, matches, 150, 32, 64)

AuthorityFinalizes ==
    \E r \in DOMAIN lib_rounds :
        /\ lib_rounds[r].status = "DecryptionComplete"
        /\ LibFinalizeMatchingRound(lib_rounds[r].pool, r)

SpecPoolsLive ==
    /\ Init
    /\ [][NextPools]_vars
    /\ WF_vars(AuthoritySettles)
    /\ WF_vars(AuthorityFinalizes)

(***************************************************************************)
(* SpecFees: lib.rs from the creation of the pool, with every fee rate in  *)
(* FeeBpsInputs, through one round and the execution of settlements.       *)
(***************************************************************************)
InitFees ==
    /\ EnhInit
    /\ lib_pool = NoLibPool
    /\ lib_orders = NoAccounts
    /\ lib_rounds = NoAccounts
    /\ lib_bal = [user |-> [t \in Traders |-> LibUserFunds], escrow |-> NoAccounts,
                  treasury |-> 0]
    /\ lib_other_pool = NoLibPool
    /\ basic_pool = NoBasicPool

NextFees ==
    \/ \E fee_bps \in FeeBpsInputs :
            LibInitializePool(Authority, LibMinOrderSize, LibMaxOrderSize, fee_bps)
    \/ /\ lib_pool # NoLibPool
       /\ \E round_id \in RoundIds, order_hashes \in RoundHashLists :
            LibBatchMatchOrders(LibPoolKey, round_id, 64, order_hashes)
    \/ /\ lib_pool # NoLibPool
       /\ \E r \in DOMAIN lib_rounds, matches \in MatchLists :
            LibSettleMatchedTrades(LibPoolKey, r, matches, 150, 32, 64)
    \/ /\ lib_pool # NoLibPool
       /\ \E r \in DOMAIN lib_rounds : LibFinalizeMatchingRound(LibPoolKey, r)
    \/ /\ lib_pool # NoLibPool
       /\ \E order_hash \in {"h1"}, deposit \in RoundDeposits :
            LibSubmitEncryptedOrder("t1", "Sell", 64, order_hash, deposit)
    \/ /\ lib_pool # NoLibPool
       /\ \E source_escrow \in DOMAIN lib_bal.escrow, settlement \in Settlements,
             overflow_checks \in BOOLEAN :
            LibExecuteSettlements(source_escrow, "t2", <<settlement>>, overflow_checks)

SpecFees == InitFees /\ [][NextFees]_vars

(***************************************************************************)
(* SpecBasic: lib_basic.rs, the pool and its settlement batches.           *)
(***************************************************************************)
NextBasic ==
    \/ BasicInitializePool(Authority)
    \/ /\ basic_pool # NoBasicPool
       /\ \E trade_data \in TradeBatches, threshold_proof \in ThresholdProofBytes :
            BasicSettleMatchedTrades(trade_data, threshold_proof)

SpecBasic == Init /\ [][NextBasic]_vars

(***************************************************************************)
(* SpecSettle: lib.rs order intake and execute_settlements.                *)
(***************************************************************************)
NextSettle ==
    \/ \E user \in Traders, order_hash \in Hashes, deposit \in RoundDeposits :
            LibSubmitEncryptedOrder(user, "Sell", 64, order_hash, deposit)
    \/ \E source_escrow \in DOMAIN lib_bal.escrow, destination \in Traders,
          settlement_data \in SettlementBatches, overflow_checks \in BOOLEAN :
            LibExecuteSettlements(source_escrow, destination, settlement_data,
                                  overflow_checks)

SpecSettle == Init /\ [][NextSettle]_vars

(***************************************************************************)
(* Claims.                                                                 *)
(***************************************************************************)
PendingSubmitted == {k \in 1..Len(orders) : orders[k].status = "Pending"}

\* C1: with no round in flight, initialize_matching_round succeeds exactly
\* when at least 30 seconds have passed since pool.last_match_time, the VRF
\* proof verifies and at least two submitted orders are Pending.
C1_OpenRoundIffPreconditions ==
    [][(result'.op = "initialize_matching_round" /\ ~pool.is_matching)
        => ((result'.status = "Ok")
             <=> (/\ now - pool.last_match_time >= MIN_MATCH_INTERVAL
                  /\ verify_vrf_proof
                  /\ Cardinality(PendingSubmitted) >= 2))]_vars

HashSubmitted(order_hash) ==
    \E k \in 1..Len(orders) : orders[k].order_hash = order_hash

\* C8: a submission whose order_hash was already submitted to the pool is
\* rejected with DuplicateOrder and changes neither the stored orders nor the
\* pool (order count, nonce set).
C8_DuplicateHashRejected ==
    [][(result'.op = "submit_encrypted_order" /\ HashSubmitted(result'.order_hash))
        => (result'.status = "DuplicateOrder" /\ UNCHANGED <<pool, orders>>)]_vars

NonceSucceeded(nonce) ==
    \E k \in 1..Len(orders) : orders[k].nonce = nonce

\* The nonces of the NonceCapacity most recently stored orders.
RecentNonces ==
    {orders[k].nonce : k \in {j \in 1..Len(orders) : j > Len(orders) - NonceCapacity}}

RoundsInFlight == {r \in 1..Len(rounds) : rounds[r].status # "Completed"}

ExecutorsWithShare(round, o) ==
    {round.partial_decryptions[i].executor_index :
        i \in {j \in 1..Len(round.partial_decryptions) :
                  round.partial_decryptions[j].order_index = o}}

\* The executor indices with any recorded share in a round.
ExecutorsSubmitted(round) ==
    {round.partial_decryptions[i].executor_index : i \in 1..Len(round.partial_decryptions)}

ShareSet(round) ==
    {<<round.partial_decryptions[i].executor_index,
       round.partial_decryptions[i].order_index,
       round.partial_decryptions[i].decryption>> :
        i \in 1..Len(round.partial_decryptions)}

\* The outcome of aggregation: quorum decision, matched pairs, clearing price.
Outcome(round) ==
    <<round.status, round.matched_orders, round.clearing_price>>

OutcomeOfShareSet(shares, threshold) ==
    IF Cardinality({sh[1] : sh \in shares}) >= threshold
    THEN <<"ReadyToComplete", << >>, CLEARING_PRICE_STUB>>
    ELSE <<"Active", << >>, 0>>

LibSnapshotInFlight ==
    UNION {SeqToSet(lib_rounds[r].order_hashes) :
              r \in {x \in DOMAIN lib_rounds :
                        lib_rounds[x].status \in {"InProgress", "DecryptionComplete"}}}

\* C10: cancel_order is rejected while a matching round is in flight for the
\* pool (enhanced_lib.rs: pool.is_matching, lib.rs: pool.is_matching_active),
\* so an order in the snapshot of an opened, not yet completed round never
\* becomes Cancelled.
C10_NoCancelDuringRound ==
    [][/\ (result'.op = "cancel_order" /\ pool.is_matching) => result'.status # "Ok"
       /\ (result'.op = "lib.cancel_order" /\ lib_pool.is_matching_active)
            => result'.status # "Ok"
       /\ \A o \in DOMAIN lib_orders :
            (o \in LibSnapshotInFlight /\ lib_orders[o].status = "Pending")
                => lib_orders'[o].status # "Cancelled"]_vars

\* The share of the current stake a violation type costs, in percent; each
\* divides 100, so the cut is the stake divided by 100 / percent.
SlashPercent(violation_type) ==
    CASE violation_type = "InvalidDecryption" -> 10
      [] violation_type = "MissedHeartbeat" -> 1
      [] violation_type = "DoubleSpending" -> 50
      [] violation_type = "MaliciousMatching" -> 25

MustBeInactive(executor) ==
    executor.slash_count >= 3 \/ executor.stake_amount < MINIMUM_EXECUTOR_STAKE

\* C12: a successful slash_executor reduces the executor's stake by the
\* percentage of the violation type (integer division, not below 0), adds 1
\* to slash_count, lowers performance_score by 20 (not below 0) and sets
\* is_active to false exactly when afterwards slash_count >= 3 or the stake
\* is below MINIMUM_EXECUTOR_STAKE.
C12_SlashEffect ==
    [][(result'.op = "slash_executor" /\ result'.status = "Ok")
        => LET old == executors[result'.executor]
               new == executors'[result'.executor]
               cut == old.stake_amount \div (100 \div SlashPercent(result'.violation_type))
           IN  /\ new.stake_amount = old.stake_amount - cut
               /\ new.stake_amount >= 0
               /\ new.slash_count = old.slash_count + 1
               /\ new.performance_score
                      = (IF old.performance_score >= 20 THEN old.performance_score - 20 ELSE 0)
               /\ MustBeInactive(new) => ~new.is_active
               /\ ~MustBeInactive(new) => new.is_active = old.is_active]_vars

\* C13: every registered executor whose stake is below
\* MINIMUM_EXECUTOR_STAKE or whose slash_count is at least 3 is inactive.
C13_UnderstakedOrSlashedIsInactive ==
    \A e \in 1..Len(executors) : MustBeInactive(executors[e]) => ~executors[e].is_active

\* C13 witness: an executor was deactivated by its slash count alone, its
\* stake still at or above the minimum.
C13_Witness ==
    \E e \in 1..Len(executors) :
        /\ executors[e].slash_count >= 3
        /\ executors[e].stake_amount >= MINIMUM_EXECUTOR_STAKE
        /\ ~executors[e].is_active
        /\ result.op = "slash_executor"

RECURSIVE SumMatchedAmount(_)
SumMatchedAmount(matched_orders) ==
    IF matched_orders = << >> THEN 0
    ELSE Head(matched_orders).matched_amount + SumMatchedAmount(Tail(matched_orders))

C11_RefundFollowsGraceWindow ==
    [][(result'.op = "lib.cancel_order" /\ result'.status = "Ok")
        => LET order == lib_orders[result'.order]
               refund == lib_bal'.user[order.owner] - lib_bal.user[order.owner]
           IN  IF now - order.submitted_at < GRACE_PERIOD
               THEN refund < order.deposit_amount
               ELSE refund = order.deposit_amount]_vars

\* What an order has available to be matched: its deposit while it is
\* Pending, nothing when no such order is stored.
AvailableAmount(order_hash) ==
    IF order_hash \in DOMAIN lib_orders /\ lib_orders[order_hash].status = "Pending"
    THEN lib_orders[order_hash].deposit_amount
    ELSE 0

RECURSIVE MatchedOf(_, _, _)
MatchedOf(matches, order_hash, side) ==
    IF matches = << >> THEN 0
    ELSE (IF (side = "Buy" /\ Head(matches).buy_order_hash = order_hash)
              \/ (side = "Sell" /\ Head(matches).sell_order_hash = order_hash)
          THEN Head(matches).amount ELSE 0)
         + MatchedOf(Tail(matches), order_hash, side)

RECURSIVE SumOver(_, _, _)
SumOver(matches, hashes, side) ==
    IF hashes = {} THEN 0
    ELSE LET h == CHOOSE x \in hashes : TRUE
         IN  MatchedOf(matches, h, side) + SumOver(matches, hashes \ {h}, side)

\* C17: the matched pairs recorded for a round never give an order more
\* than its available amount, on the buy or on the sell side, and the
\* matched buy volume equals the matched sell volume.
C17_MatchesWithinAvailable ==
    /\ \A r \in 1..Len(rounds) : rounds[r].matched_orders = << >>
    /\ \A r \in DOMAIN lib_rounds :
          /\ \A h \in Hashes, side \in Sides :
                MatchedOf(lib_rounds[r].matches, h, side) <= AvailableAmount(h)
          /\ SumOver(lib_rounds[r].matches, Hashes, "Buy")
                = SumOver(lib_rounds[r].matches, Hashes, "Sell")

\* C18: while a lib.rs pool is paused, every submit_encrypted_order and
\* every batch_match_orders on it is rejected; a newly initialized pool is
\* not paused.
C18_PausedPoolRejects ==
    [][/\ (result'.op \in {"lib.submit_encrypted_order", "lib.batch_match_orders"}
            /\ lib_pool.is_paused) => result'.status # "Ok"
       /\ ~lib_initialize_pool(Authority, LibMinOrderSize, LibMaxOrderSize,
                               LibFeeBps, now).is_paused]_vars

\* C19: each round a successful lib.rs batch_match_orders opens has a
\* round_id greater than that of every round opened earlier on the pool,
\* and pool.matching_round grows with it.
C19_RoundIdsIncrease ==
    [][(result'.op = "lib.batch_match_orders" /\ result'.status = "Ok")
        => /\ \A r \in DOMAIN lib_rounds : result'.round_id > r
           /\ lib_pool'.matching_round > lib_pool.matching_round]_vars

RECURSIVE SumBalances(_, _)
SumBalances(balances, keys) ==
    IF keys = {} THEN 0
    ELSE LET k == CHOOSE x \in keys : TRUE
         IN  balances[k] + SumBalances(balances, keys \ {k})

\* C20: execute_settlements is all-or-nothing: when a transfer of the batch
\* fails the escrow, destination and treasury balances are what they were
\* before the call, and a call that succeeds has paid every settlement of
\* the batch (amount less fee to the destination, fee to the treasury), so
\* no state holds part of a batch.
C20_SettlementAllOrNothing ==
    [][result'.op = "lib.execute_settlements"
        => IF result'.status = "Ok"
           THEN /\ lib_bal'.treasury = lib_bal.treasury + result'.fee_amount
                /\ SumBalances(lib_bal'.escrow, DOMAIN lib_bal.escrow)
                      = SumBalances(lib_bal.escrow, DOMAIN lib_bal.escrow) - result'.amount
                /\ SumBalances(lib_bal'.user, Traders)
                      = SumBalances(lib_bal.user, Traders)
                          + result'.amount - result'.fee_amount
           ELSE UNCHANGED lib_bal]_vars

\* C20 witness: a batch failed at its second settlement, after the first
\* one had been paid in full.
C20_Witness ==
    /\ result.op = "lib.execute_settlements"
    /\ result.status = "TransferFailed"
    /\ result.settlements = 2
    /\ result.reached = 2

ValidCommittee(threshold, total_executors) ==
    3 <= threshold /\ threshold <= total_executors /\ total_executors <= 5

\* C21: initialize_pool creates a pool exactly when
\* 3 <= threshold <= total_executors <= 5; any other pair is rejected and
\* creates no pool, so every pool that exists satisfies 3 <= t <= n <= 5.
C21_PoolHasValidCommittee ==
    [][/\ (result'.op = "initialize_pool" /\ pool = NoPool)
            => /\ (result'.status = "Ok")
                     <=> ValidCommittee(result'.threshold, result'.total_executors)
               /\ result'.status # "Ok" => pool' = NoPool
               /\ result'.status = "Ok"
                     => /\ pool'.threshold = result'.threshold
                        /\ pool'.total_executors = result'.total_executors
       /\ pool' # NoPool => ValidCommittee(pool'.threshold, pool'.total_executors)]_vars

\* C21 witness: a pool with the smallest threshold and the largest committee
\* was created.
C21_Witness ==
    /\ pool # NoPool
    /\ pool.threshold = 3
    /\ pool.total_executors = 5
    /\ result.op = "initialize_pool"
    /\ result.status = "Ok"

RegistryIndices(p) == {p.executor_registry[i][2] : i \in 1..Len(p.executor_registry)}

\* C25: register_executor succeeds only with executor_index <
\* total_executors, stake >= MINIMUM_EXECUTOR_STAKE and no executor at that
\* index; the registry never has two entries with one index nor more than
\* total_executors (<= 5) entries, and a new executor is active with
\* performance score 100 and slash count 0.
C25_RegistryIsACommittee ==
    [][/\ (result'.op = "register_executor" /\ result'.status = "Ok")
            => LET new == executors'[Len(executors')]
               IN  /\ Len(executors') = Len(executors) + 1
                   /\ new.executor_index < pool.total_executors
                   /\ new.stake_amount >= MINIMUM_EXECUTOR_STAKE
                   /\ new.executor_index \notin RegistryIndices(pool)
                   /\ new.is_active
                   /\ new.performance_score = 100
                   /\ new.slash_count = 0
       /\ pool' # NoPool
            => /\ Cardinality(RegistryIndices(pool')) = Len(pool'.executor_registry)
               /\ Len(pool'.executor_registry) <= pool'.total_executors
               /\ pool'.total_executors <= 5]_vars

\* C25 witness: the committee is complete and one more registration was
\* refused because its index is taken.
C25_Witness ==
    /\ pool # NoPool
    /\ Len(pool.executor_registry) = pool.total_executors
    /\ result.op = "register_executor"
    /\ result.status = "ExecutorAlreadyRegistered"

AccountsAtIndex(index) ==
    {e \in 1..Len(executors) : executors[e].executor_index = index}

Deactivated(executor) ==
    ~executor.is_active \/ executor.stake_amount < MINIMUM_EXECUTOR_STAKE

C26_PerformanceScoreInRange ==
    [][/\ \A e \in 1..Len(executors') : executors'[e].performance_score \in 0..100
       /\ (result'.op = "executor_heartbeat" /\ result'.status = "Ok")
            => LET old == executors[result'.executor].performance_score
               IN  executors'[result'.executor].performance_score
                      = (IF old < 100 THEN old + 1 ELSE 100)
       /\ (result'.op = "slash_executor" /\ result'.status = "Ok")
            => LET old == executors[result'.executor].performance_score
               IN  executors'[result'.executor].performance_score
                      = (IF old >= 20 THEN old - 20 ELSE 0)]_vars

\* C26 witness: a heartbeat raised the score of a slashed executor that is
\* still below 100.
C26_Witness ==
    /\ result.op = "executor_heartbeat"
    /\ result.status = "Ok"
    /\ executors[result.executor].slash_count >= 1
    /\ executors[result.executor].performance_score < 100

\* C27: authority-only operations reject other callers without changing
\* state: emergency_pause by a signer other than the pool authority leaves
\* is_paused unchanged, and slash_executor by a signer other than the pool
\* authority, or with evidence that does not verify, leaves the executor's
\* stake, slash count, performance score and active flag unchanged.
C27_AuthorityOnlyOperations ==
    [][/\ (result'.op = "lib.emergency_pause" /\ result'.authority # lib_pool.authority)
            => (result'.status # "Ok" /\ lib_pool'.is_paused = lib_pool.is_paused)
       /\ (/\ result'.op = "slash_executor"
           /\ (result'.authority # pool.authority \/ result'.evidence = "forged"))
            => (result'.status # "Ok" /\ UNCHANGED executors)]_vars

OutOfBounds(deposit_amount) ==
    deposit_amount < lib_pool.min_order_size \/ deposit_amount > lib_pool.max_order_size

C29_FirstFailingCheckWins ==
    [][result'.op = "submit_encrypted_order"
        => result'.status =
              (IF HashSubmitted(result'.order_hash) THEN "DuplicateOrder"
               ELSE IF result'.nonce \in SeqToSet(pool.used_nonces) THEN "NonceReused"
               ELSE "Ok")]_vars

\* C30: the recorded nonce set never holds more than NonceCapacity entries
\* after a submission; a submission that pushes it over evicts exactly the
\* oldest entry, and the set holds the nonces of the NonceCapacity most
\* recent accepted orders, each of which is rejected on reuse.
C30_NonceSetCapped ==
    [][/\ Len(pool'.used_nonces) <= NonceCapacity
       /\ RecentNonces' = SeqToSet(pool'.used_nonces)
       /\ result'.op = "submit_encrypted_order"
            => /\ result'.status = "Ok"
                    => LET pushed == Append(pool.used_nonces, result'.nonce)
                       IN  pool'.used_nonces =
                              (IF Len(pool.used_nonces) = NonceCapacity
                               THEN Tail(pushed) ELSE pushed)
               /\ result'.nonce \in SeqToSet(pool.used_nonces)
                    => (result'.status # "Ok" /\ UNCHANGED pool)]_vars

\* C30 witness: a submission evicted the oldest nonce from a full set.
C30_Witness ==
    /\ result.op = "submit_encrypted_order"
    /\ result.status = "Ok"
    /\ Len(orders) > NonceCapacity
    /\ Len(pool.used_nonces) = NonceCapacity
    /\ orders[1].nonce \notin SeqToSet(pool.used_nonces)
    /\ pool.used_nonces[NonceCapacity] = result.nonce

RECURSIVE SumEscrow(_, _)
SumEscrow(bal, accounts) ==
    IF accounts = {} THEN 0
    ELSE LET a == CHOOSE x \in accounts : TRUE
         IN  bal.escrow[a] + SumEscrow(bal, accounts \ {a})

\* C31: cancel_order of either program succeeds only for the order's owner
\* and only on a Pending order; a Cancelled order keeps status Cancelled, a
\* second cancel of it is rejected, and the deposit leaves escrow for the
\* owner only in the step that takes the order from Pending to Cancelled,
\* so at most once per order.
C31_CancelledIsTerminal ==
    [][/\ \A k \in 1..Len(orders) :
             orders[k].status = "Cancelled" => orders'[k].status = "Cancelled"
       /\ \A o \in DOMAIN lib_orders :
             lib_orders[o].status = "Cancelled" => lib_orders'[o].status = "Cancelled"
       /\ result'.op = "cancel_order"
            => IF result'.status = "Ok"
               THEN /\ orders[result'.order].trader = result'.trader
                    /\ orders[result'.order].status = "Pending"
                    /\ orders'[result'.order].status = "Cancelled"
               ELSE UNCHANGED orders
       /\ result'.op = "lib.cancel_order"
            => IF result'.status = "Ok"
               THEN /\ lib_orders[result'.order].owner = result'.user
                    /\ lib_orders[result'.order].status = "Pending"
                    /\ lib_orders'[result'.order].status = "Cancelled"
                    /\ lib_bal'.user[result'.user]
                          = lib_bal.user[result'.user] + lib_orders[result'.order].deposit_amount
                    /\ SumEscrow(lib_bal', DOMAIN lib_bal.escrow)
                          = SumEscrow(lib_bal, DOMAIN lib_bal.escrow)
                              - lib_orders[result'.order].deposit_amount
               ELSE UNCHANGED <<lib_orders, lib_bal>>]_vars

\* C31 witness: both programs hold a cancelled order, and a second cancel of
\* the lib.rs one by its owner was rejected while another escrow still held
\* a deposit.
C31_Witness ==
    /\ result.op = "lib.cancel_order"
    /\ result.status = "InvalidOrderStatus"
    /\ lib_orders[result.order].status = "Cancelled"
    /\ lib_orders[result.order].owner = result.user
    /\ \E e \in DOMAIN lib_bal.escrow :
          lib_bal.escrow[e] >= lib_orders[result.order].deposit_amount
    /\ \E k \in 1..Len(orders) : orders[k].status = "Cancelled"

\* The rounds of a pool that are neither Completed nor Failed.
LibRoundsInFlight(pool_key) ==
    {a \in DOMAIN lib_rounds :
        /\ lib_rounds[a].pool = pool_key
        /\ lib_rounds[a].status \in {"InProgress", "DecryptionComplete"}}

\* C32: pool.is_matching_active is true exactly when some round of the pool
\* is InProgress or DecryptionComplete, and at most one round of a pool is;
\* batch_match_orders is rejected with MatchingInProgress while the flag is
\* true, and only finalize_matching_round clears the flag.
C32_FlagIffRoundInFlight ==
    [][\A pool_key \in LibPoolKeys :
          /\ lib_pool_account(pool_key)'.is_matching_active
                <=> (LibRoundsInFlight(pool_key)' # {})
          /\ Cardinality(LibRoundsInFlight(pool_key)') <= 1
          /\ (/\ result'.op = "lib.batch_match_orders"
              /\ result'.pool = pool_key
              /\ lib_pool_account(pool_key).is_matching_active)
               => /\ result'.status # "Ok"
                  /\ round_address(pool_key, result'.round_id) \notin DOMAIN lib_rounds
                        => result'.status = "MatchingInProgress"
          /\ (/\ lib_pool_account(pool_key).is_matching_active
              /\ ~lib_pool_account(pool_key)'.is_matching_active)
               => (result'.op = "lib.finalize_matching_round" /\ result'.status = "Ok")]_vars

LibTotals(p) == <<p.total_volume, p.total_trades, p.total_fees_collected>>

LibTotalsAfter(pool_key) ==
    LibTotals(IF pool_key = LibPoolKey THEN lib_pool' ELSE lib_other_pool')

\* C33: a round's status only moves InProgress -> DecryptionComplete ->
\* Completed; settle_matched_trades succeeds only on a round InProgress, so
\* at most once per round, and that one call adds the round's matched
\* volume, trade count and fees to the pool totals, which no other step
\* changes; finalize_matching_round succeeds only on a round
\* DecryptionComplete; a Completed round is never changed.
C33_RoundStateMachine ==
    [][/\ \A a \in DOMAIN lib_rounds :
             /\ \/ lib_rounds'[a].status = lib_rounds[a].status
                \/ /\ lib_rounds[a].status = "InProgress"
                   /\ lib_rounds'[a].status = "DecryptionComplete"
                \/ /\ lib_rounds[a].status = "DecryptionComplete"
                   /\ lib_rounds'[a].status = "Completed"
             /\ lib_rounds[a].status = "Completed" => lib_rounds'[a] = lib_rounds[a]
       /\ \A a \in DOMAIN lib_rounds' \ DOMAIN lib_rounds :
             lib_rounds'[a].status = "InProgress"
       /\ (result'.op = "lib.finalize_matching_round" /\ result'.status = "Ok")
            => lib_rounds[result'.round_id].status = "DecryptionComplete"
       /\ IF result'.op = "lib.settle_matched_trades" /\ result'.status = "Ok"
          THEN LET round == lib_rounds'[result'.round_id]
                   own == result'.pool
               IN  /\ lib_rounds[result'.round_id].status = "InProgress"
                   /\ LibTotalsAfter(own)
                         = <<lib_pool_account(own).total_volume + fold_amount(round.matches),
                             lib_pool_account(own).total_trades + Len(round.matches),
                             lib_pool_account(own).total_fees_collected + round.total_fees>>
                   /\ \A other \in LibPoolKeys \ {own} :
                         LibTotalsAfter(other) = LibTotals(lib_pool_account(other))
          ELSE \A pool_key \in LibPoolKeys :
                  LibTotalsAfter(pool_key) = LibTotals(lib_pool_account(pool_key))]_vars

\* C33 witness: a second settlement of a round that was settled with a
\* positive volume and then finalized was rejected.
C33_Witness ==
    /\ result.op = "lib.settle_matched_trades"
    /\ result.status = "InvalidMatchingStatus"
    /\ lib_rounds[result.round_id].status = "Completed"
    /\ fold_amount(lib_rounds[result.round_id].matches) > 0
    /\ lib_pool.total_volume + lib_other_pool.total_volume
          >= fold_amount(lib_rounds[result.round_id].matches)

RoundAddresses ==
    {round_address(LibPoolKey, round_id) : round_id \in RoundIds}
        \cup {round_address(LibOtherPoolKey, round_id) : round_id \in OtherRoundIds}

\* C34: under fairness of the authority's settle_matched_trades and
\* finalize_matching_round calls, every opened round eventually is
\* Completed and a pool's is_matching_active, once true, eventually becomes
\* false, so that the pool can open a further round.
C34_EveryRoundCompletes ==
    /\ \A a \in RoundAddresses :
          (a \in DOMAIN lib_rounds)
              ~> (a \in DOMAIN lib_rounds /\ lib_rounds[a].status = "Completed")
    /\ \A pool_key \in LibPoolKeys :
          lib_pool_account(pool_key).is_matching_active
              ~> ~lib_pool_account(pool_key).is_matching_active

\* C35: execute_settlements moves funds out of escrow only for a round
\* whose matches are recorded (status DecryptionComplete), and what it pays
\* out, net amounts plus fees, does not exceed that round's matched volume;
\* otherwise it transfers nothing.
C35_SettlementsWithinMatchedVolume ==
    [][(result'.op = "lib.execute_settlements" /\ lib_bal' # lib_bal)
        => \E r \in DOMAIN lib_rounds :
              /\ lib_rounds[r].status = "DecryptionComplete"
              /\ result'.amount <= fold_amount(lib_rounds[r].matches)]_vars

\* C36: every settle_matched_trades records
\* total_fees = floor(matched volume * fee_bps / 10000), which does not
\* exceed the matched volume, so total_fees_collected <= total_volume for
\* every pool initialize_pool creates; in execute_settlements no
\* settlement's fee_amount exceeds its amount, so amount - fee_amount never
\* underflows.
C36_FeesWithinVolume ==
    [][/\ (result'.op = "lib.settle_matched_trades" /\ result'.status = "Ok")
            => LET round == lib_rounds'[result'.round_id]
                   volume == fold_amount(round.matches)
               IN  /\ round.total_fees
                         = (volume * lib_pool_account(result'.pool).fee_bps) \div 10000
                   /\ round.total_fees <= volume
       /\ lib_pool' # NoLibPool
            => lib_pool'.total_fees_collected <= lib_pool'.total_volume
       /\ result'.op = "lib.execute_settlements"
            => result'.status # "ArithmeticOverflow"]_vars

RECURSIVE SumVolumes(_, _)
SumVolumes(trade_data, n) ==
    IF n = 0 THEN 0 ELSE trade_data[n].volume + SumVolumes(trade_data, n - 1)

\* C37: lib_basic.rs settle_matched_trades rejects a batch of more than 50
\* trades and a batch whose threshold proof has a first byte <= 100, and a
\* rejected call leaves pool.total_volume unchanged; an accepted batch has
\* at most 50 trades and increases pool.total_volume by exactly the sum of
\* the trades' volumes.
C37_BatchSettlement ==
    [][result'.op = "basic.settle_matched_trades"
        => LET trade_data == result'.trade_data
           IN  /\ Len(trade_data) > 50 => result'.status = "TooManyTrades"
               /\ result'.threshold_proof <= 100 => result'.status # "Ok"
               /\ result'.status # "Ok" => UNCHANGED basic_pool
               /\ result'.status = "Ok"
                    => /\ Len(trade_data) <= 50
                       /\ basic_pool'.total_volume
                             = basic_pool.total_volume
                                 + SumVolumes(trade_data, Len(trade_data))]_vars

\* C37 witness: a batch of exactly 50 trades with a positive volume was
\* accepted on a pool that had volume already.
C37_Witness ==
    /\ result.op = "basic.settle_matched_trades"
    /\ result.status = "Ok"
    /\ Len(result.trade_data) = 50
    /\ SumVolumes(result.trade_data, 50) > 0
    /\ basic_pool.total_volume > SumVolumes(result.trade_data, 50)
====
